---- MODULE Spec2Model ----
(***************************************************************************)
(* A model of web_scraper.py: the in-page element classifier               *)
(* (JS_GET_CLICKABLE_ELEMENTS), the WebScraper session (open_page,         *)
(* find_clickable_elements, highlight_element, click_element, the          *)
(* __aenter__/__aexit__ scope), the command loop (interactive_mode) and    *)
(* main.                                                                   *)
(*                                                                         *)
(* A document is a tree of element nodes under the body.  Node 1 is the    *)
(* body; parent[i] < i, and the children of a node are in document order   *)
(* by increasing node number.  The browser, the page and the operator at   *)
(* the prompt are the environment: their answers (a raised automation      *)
(* error, the node a locator resolves to, the text typed) are inputs drawn *)
(* from small sets.                                                        *)
(***************************************************************************)
EXTENDS Integers, Sequences, FiniteSets, TLC

VARIABLES
    playwright, \* self.playwright: "unset" (no such attribute), "started", "stopped"
    browser,    \* self.browser: "None", "launched", "closed"
    page,       \* self.page: 0 for None, else the number of the page
    openPages,  \* the pages open in the browser process
    url,        \* page.url of the active page
    dom,        \* the live document of the active page
    elements,   \* the list returned by the last find_clickable_elements
    args,       \* the index and the list the last highlight or click was given
    ret,        \* the last call on the session and how it ended
    calls,      \* the automation calls that call issued against the page
    passes,     \* number of classification passes run so far
    domChanges, \* number of changes page scripts made to the document
    pc,         \* where main is
    command,    \* the line the command loop read last
    out,        \* what the command loop printed for it
    probe,      \* isInViewport under test: the rectangle and the window size
    probeOut    \* isInViewport under test: whether it was asked, and the answer

sessionVars == <<playwright, browser, page, openPages, url, dom, elements, args, ret, calls>>
countVars == <<passes, domChanges>>
mainVars == <<pc, command, out>>
probeVars == <<probe, probeOut>>
vars == <<sessionVars, countVars, mainVars, probeVars>>

(***************************************************************************)
(* Bounds of the model.                                                    *)
(***************************************************************************)
MaxNodes == 4        \* element nodes of a document, the body included
MaxSessionNodes == 2 \* element nodes of a document a session is opened on
MaxPages == 2        \* pages one session opens
MaxPasses == 2       \* classification passes in one behaviour
MaxDomChanges == 1   \* changes page scripts make to a document
Slack == 1           \* how far around each tolerance edge coordinates range

(***************************************************************************)
(* Program constants.                                                      *)
(***************************************************************************)
ViewportWidth == 1280
ViewportHeight == 800
Tolerance == 100

Null == "<null>"     \* JavaScript null / Python None where a string may stand

(***************************************************************************)
(* Documents.                                                              *)
(***************************************************************************)
ZeroRect == [x |-> 0, y |-> 0, width |-> 0, height |-> 0]
BoxRect == [x |-> 10, y |-> 20, width |-> 80, height |-> 30]

NoAttributes == [n \in {} |-> Null]

Element(tag, attributes, onclick, rect, visibility, display, opacity) ==
    [tagName |-> tag, attributes |-> attributes, onclick |-> onclick,
     rect |-> rect, visibility |-> visibility, display |-> display,
     opacity |-> opacity]

Shown(tag, attributes, onclick) ==
    Element(tag, attributes, onclick, BoxRect, "visible", "block", "1")

\* rect.top, rect.left, rect.bottom, rect.right of a DOMRect
Top(r) == r.y
Left(r) == r.x
Bottom(r) == r.y + r.height
Right(r) == r.x + r.width

Nodes(d) == 1..Len(d.parent)

RECURSIVE Ancestors(_, _)
Ancestors(d, n) ==
    IF d.parent[n] = 0 THEN {} ELSE {d.parent[n]} \cup Ancestors(d, d.parent[n])

\* element.children, in document order
Children(d, n) ==
    SelectSeq([i \in 1..Len(d.parent) |-> i], LAMBDA i : d.parent[i] = n)

\* What a browser lays out: nothing inside a display:none box has a box.
Rendered(d) ==
    \A n \in Nodes(d) :
        (\E a \in Ancestors(d, n) \cup {n} : d.node[a].display = "none")
            => d.node[n].rect = ZeroRect

TreeShapes(k) ==
    {p \in [1..k -> 0..(k - 1)] : p[1] = 0 /\ \A i \in 2..k : p[i] \in 1..(i - 1)}

\* overlays: the indices of the highlight-overlay-<index> boxes (each with its
\* label) that JS_HIGHLIGHT_ELEMENT appends to the body; none is ever
\* appended, as the script never reaches the page (see highlighted); styled: the elements given the inline red
\* border and background.
Documents(k_max, bodies, kinds) ==
    {d \in UNION {[parent : TreeShapes(k), node : [1..k -> bodies \cup kinds],
                   overlays : {{}}, styled : {{}}] : k \in 1..k_max} :
        /\ d.node[1] \in bodies
        /\ \A i \in 2..Len(d.parent) : d.node[i] \in kinds
        /\ Rendered(d)}

(***************************************************************************)
(* JS_GET_CLICKABLE_ELEMENTS.                                              *)
(***************************************************************************)
\* element.getAttribute(name)
getAttribute(e, name) ==
    IF name \in DOMAIN e.attributes THEN e.attributes[name] ELSE Null

\* JavaScript truthiness of a string-or-null
Truthy(v) == v # Null /\ v # ""

isVisible(e) ==
    /\ (Top(e.rect) # 0 \/ Bottom(e.rect) # 0 \/ e.rect.width # 0 \/ e.rect.height # 0)
    /\ e.visibility # "hidden"
    /\ e.display # "none"
    /\ e.opacity # "0"

isInViewport_noRightBottomMargin(rect, innerWidth, innerHeight) ==
    /\ Top(rect) >= -Tolerance
    /\ Left(rect) >= -Tolerance
    /\ Bottom(rect) <= innerHeight
    /\ Right(rect) <= innerWidth

isInViewport(rect, innerWidth, innerHeight) ==
    /\ Top(rect) >= -Tolerance
    /\ Left(rect) >= -Tolerance
    /\ Bottom(rect) <= innerHeight + Tolerance
    /\ Right(rect) <= innerWidth + Tolerance

interactiveTags == {"a", "button", "input", "select", "textarea", "details", "summary"}
interactiveRoles == {"button", "link", "checkbox", "radio", "tab", "menuitem"}

isInteractive(e) ==
    \/ e.tagName \in interactiveTags
    \/ Truthy(getAttribute(e, "role")) /\ getAttribute(e, "role") \in interactiveRoles
    \/ e.onclick \/ Truthy(getAttribute(e, "onclick"))
       \/ Truthy(getAttribute(e, "ng-click")) \/ Truthy(getAttribute(e, "@click"))
    \/ Truthy(getAttribute(e, "tabindex")) /\ getAttribute(e, "tabindex") # "-1"
    \/ getAttribute(e, "contenteditable") = "true"

\* element.id: the id attribute, the empty string when there is none.  An id
\* is a sequence of characters, so that the selectors built from it can be
\* read back character by character.
elementId(e) == IF "id" \in DOMAIN e.attributes THEN e.attributes["id"] ELSE <<>>

\* Number of earlier siblings of n with n's tag (the inner while loop).
sameTagBefore(d, n) ==
    Cardinality({s \in Nodes(d) : /\ s < n
                                  /\ d.parent[s] = d.parent[n]
                                  /\ d.node[s].tagName = d.node[n].tagName})

\* One part of the path: tagName + pathIndex; pos = 0 stands for no [k].
pathPart(d, n) ==
    LET idx == sameTagBefore(d, n)
    IN [tag |-> d.node[n].tagName, pos |-> IF idx # 0 THEN idx + 1 ELSE 0]

RECURSIVE pathParts(_, _)
pathParts(d, n) ==
    IF n = 0 THEN <<[tag |-> "html", pos |-> 0]>>
    ELSE Append(pathParts(d, d.parent[n]), pathPart(d, n))

\* getXPath: the text //*[@id="<id>"] is kept as its id, the text
\* /html/body/... as its parts, the empty text as kind "empty".
getXPath(d, n) ==
    IF elementId(d.node[n]) # <<>>
    THEN [kind |-> "id", id |-> elementId(d.node[n])]
    ELSE [kind |-> "path", parts |-> pathParts(d, n)]

EmptyXPath == [kind |-> "empty"]

boundingBox(rect) ==
    [x |-> rect.x, y |-> rect.y, width |-> rect.width, height |-> rect.height,
     top |-> Top(rect), right |-> Right(rect), bottom |-> Bottom(rect),
     left |-> Left(rect)]

\* The object pushed for one element.  The text is left out; node is a
\* ghost field naming the element the record was made of.
descriptor(d, n, index) ==
    [index |-> index,
     tagName |-> d.node[n].tagName,
     attributes |-> d.node[n].attributes,
     xpath |-> getXPath(d, n),
     isVisible |-> TRUE,
     isInViewport |-> isInViewport(d.node[n].rect, ViewportWidth, ViewportHeight),
     boundingBox |-> boundingBox(d.node[n].rect),
     node |-> n]

\* clickableElements.push({index: index++, ...})
pushElement_preIncrement(st, d, n) ==
    [out |-> Append(st.out, descriptor(d, n, st.index + 1)), index |-> st.index + 1]

pushElement(st, d, n) ==
    [out |-> Append(st.out, descriptor(d, n, st.index)), index |-> st.index + 1]

RECURSIVE processElement(_, _, _)
RECURSIVE processChildren(_, _, _)

\* for (const child of element.children) processElement(child)
processChildren(d, kids, st) ==
    IF kids = <<>> THEN st
    ELSE processChildren(d, Tail(kids), processElement(d, Head(kids), st))

processElement_stopsAtRecorded(d, n, st) ==
    IF ~isVisible(d.node[n]) THEN st
    ELSE IF isInteractive(d.node[n]) THEN pushElement(st, d, n)
         ELSE processChildren(d, Children(d, n), st)

processElement(d, n, st) ==
    IF ~isVisible(d.node[n]) THEN st
    ELSE processChildren(d, Children(d, n),
                         IF isInteractive(d.node[n]) THEN pushElement(st, d, n) ELSE st)

\* The whole script: const clickableElements = []; let index = 0;
\* processElement(document.body); return clickableElements
JS_GET_CLICKABLE_ELEMENTS(d) == processElement(d, 1, [out |-> <<>>, index |-> 0]).out

\* ElementInfo(index=data['index'], tag_name=data['tagName'], ...)
ElementInfo(data) ==
    [index |-> data.index,
     tag_name |-> data.tagName,
     attributes |-> data.attributes,
     xpath |-> data.xpath,
     is_visible |-> data.isVisible,
     is_in_viewport |-> data.isInViewport,
     bounding_box |-> data.boundingBox,
     node |-> data.node]

\* The loop of find_clickable_elements over elements_data
convertElements(elements_data) ==
    [i \in 1..Len(elements_data) |-> ElementInfo(elements_data[i])]

(***************************************************************************)
(* The page as the automation engine sees it: what a locator resolves to.  *)
(***************************************************************************)
RECURSIVE preorder(_, _)
RECURSIVE preorderAll(_, _)
preorderAll(d, kids) ==
    IF kids = <<>> THEN <<>>
    ELSE preorder(d, Head(kids)) \o preorderAll(d, Tail(kids))
preorder(d, n) == <<n>> \o preorderAll(d, Children(d, n))

\* The elements of the document in document order
documentOrder(d) == preorder(d, 1)

\* <html> and <head>, which every document has above and beside its body;
\* the head of these documents is empty.
HtmlElement == -1
HeadElement == -2

\* The first of a set of nodes in document order, 0 when the set is empty
firstInDocument(d, matches) ==
    LET order == documentOrder(d)
        at == {i \in 1..Len(order) : order[i] \in matches}
    IN IF HtmlElement \in matches THEN HtmlElement
       ELSE IF HeadElement \in matches THEN HeadElement
       ELSE IF at = {} THEN 0
       ELSE order[CHOOSE i \in at : \A j \in at : i <= j]

\* The characters ids are made of here: letters and digits.  The texts
\* built from an id, //*[@id="<id>"] and "#<id>", are read below for such
\* ids only; what an id with a quote, a blank or a combinator in it makes
\* of them is not modelled.
NameChars ==
    {"a", "b", "c", "d", "e", "f", "g", "h", "i", "j", "k", "l", "m",
     "n", "o", "p", "q", "r", "s", "t", "u", "v", "w", "x", "y", "z"}
DigitChars == {"0", "1", "2", "3", "4", "5", "6", "7", "8", "9"}
IsIdText(id) == \A i \in 1..Len(id) : id[i] \in NameChars \cup DigitChars

\* Whether the text built from the xpath is an XPath expression at all:
\* //*[@id="<id>"] is one for every id of letters and digits (the empty id
\* too), /html/... is one, the empty text is none.
xpathWellFormed(xp) ==
    CASE xp.kind = "id" /\ IsIdText(xp.id) -> TRUE
      [] xp.kind = "path" -> xp.parts # <<>>
      [] xp.kind = "empty" -> FALSE

\* The parent element of a node of the document: <html> for the body
parentElement(d, c) == IF d.parent[c] = 0 THEN HtmlElement ELSE d.parent[c]

RECURSIVE pathMatches(_, _, _)
\* The elements a path selects below the elements `from`
pathMatches(d, from, parts) ==
    IF parts = <<>> THEN from
    ELSE pathMatches(d,
            {c \in Nodes(d) :
                /\ parentElement(d, c) \in from
                /\ d.node[c].tagName = Head(parts).tag
                /\ (Head(parts).pos = 0 \/ sameTagBefore(d, c) + 1 = Head(parts).pos)}
              \cup (IF HtmlElement \in from /\ Head(parts).tag = "head"
                       /\ Head(parts).pos \in {0, 1}
                    THEN {HeadElement} ELSE {}),
            Tail(parts))

\* document.evaluate(xpath, document, null, FIRST_ORDERED_NODE_TYPE, null)
\* .singleNodeValue for a well-formed xpath: the element, 0 for null
evaluateXPath(d, xp) ==
    IF xp.kind = "id"
    THEN firstInDocument(d, {n \in Nodes(d) : /\ "id" \in DOMAIN d.node[n].attributes
                                              /\ d.node[n].attributes["id"] = xp.id})
    ELSE IF Head(xp.parts).tag = "html" /\ Head(xp.parts).pos \in {0, 1}
         THEN firstInDocument(d, pathMatches(d, {HtmlElement}, Tail(xp.parts)))
         ELSE 0

\* Whether "#" + id is a CSS selector, for an id of letters and digits: the
\* empty id gives "#", which is none, and so does an id that starts with a
\* digit.
cssWellFormed(id) ==
    CASE id = <<>> -> FALSE
      [] id # <<>> /\ IsIdText(id) -> id[1] \in NameChars

\* document.querySelector("#" + id) for a well-formed selector: the element
\* or 0.
querySelector(d, id) ==
    firstInDocument(d, {n \in Nodes(d) : elementId(d.node[n]) = id})


(***************************************************************************)
(* WebScraper.                                                             *)
(***************************************************************************)
BlankDocument ==
    [parent |-> <<0>>, node |-> <<Shown("body", NoAttributes, FALSE)>>,
     overlays |-> {}, styled |-> {}]

EmptyBox == [n \in {} |-> 0]

Returned(op, value) == [op |-> op, value |-> value]
NoCall == Returned("none", "None")
NoArgs == [element_index |-> -1, elements |-> <<>>]

\* __init__: self.browser = None, self.page = None
NewSession ==
    /\ playwright = "unset"
    /\ browser = "None"
    /\ page = 0
    /\ openPages = {}
    /\ url = "about:blank"
    /\ dom = BlankDocument
    /\ elements = <<>>
    /\ args = NoArgs
    /\ ret = NoCall
    /\ calls = <<>>

\* __aenter__; fault names the call that raises: "start" the start of the
\* automation engine, "launch" the launch of the browser, "none" neither.
aenter(fault) ==
    /\ playwright' = IF fault = "start" THEN playwright ELSE "started"
    /\ browser' = IF fault = "none" THEN "launched" ELSE browser
    /\ ret' = Returned("__aenter__", IF fault = "none" THEN "self" ELSE "Error")
    /\ calls' = <<>>
    /\ args' = NoArgs
    /\ UNCHANGED <<page, openPages, url, dom, elements>>

\* __aexit__; fault names the call that raises when made: "close" is
\* browser.close(), "stop" is playwright.stop().
aexit(fault) ==
    LET closes == browser # "None"
        closeRaises == closes /\ fault = "close"
        stops == ~closeRaises /\ playwright # "unset"
        stopRaises == stops /\ fault = "stop"
    IN /\ browser' = IF closes /\ ~closeRaises THEN "closed" ELSE browser
       /\ openPages' = IF closes /\ ~closeRaises THEN {} ELSE openPages
       /\ playwright' = IF stops /\ ~stopRaises THEN "stopped" ELSE playwright
       /\ ret' = Returned("__aexit__", IF closeRaises \/ stopRaises THEN "Error" ELSE "None")
       /\ calls' = <<>>
       /\ args' = NoArgs
       /\ UNCHANGED <<page, url, dom, elements>>

\* What open_page leaves: u is the address, d the document served there.
\* fault: "new_page" (browser.new_page raises), "goto" (set_viewport_size
\* raises, or goto does before the document is committed: the new page
\* stays blank), "wait" (goto times out waiting for the network to be idle,
\* or wait_for_load_state raises: the new page shows the document), "none".
opened(u, d, fault) ==
    IF browser # "launched" \/ fault = "new_page"
    THEN [page |-> page, openPages |-> openPages, url |-> url, dom |-> dom,
          value |-> "Error"]
    ELSE LET new == Cardinality(openPages) + 1
         IN IF fault = "goto"
            THEN [page |-> new, openPages |-> openPages \cup {new},
                  url |-> "about:blank", dom |-> BlankDocument, value |-> "Error"]
            ELSE [page |-> new, openPages |-> openPages \cup {new},
                  url |-> u, dom |-> d,
                  value |-> IF fault = "wait" THEN "Error" ELSE "page"]

open_page(u, d, fault) ==
    LET o == opened(u, d, fault)
    IN /\ Cardinality(openPages) < MaxPages
       /\ page' = o.page
       /\ openPages' = o.openPages
       /\ url' = o.url
       /\ dom' = o.dom
       /\ ret' = Returned("open_page", o.value)
       /\ calls' = <<>>
       /\ args' = NoArgs
       /\ UNCHANGED <<playwright, browser, elements>>

\* One automation call in the record of a session call: what was asked of
\* the page and whether the automation layer raised.
Evaluate(script, raised) == [api |-> "evaluate", script |-> script, raised |-> raised]
PageClick(by, selector, raised) ==
    [api |-> "page.click", by |-> by, selector |-> selector, raised |-> raised]
MouseClick(at, raised) == [api |-> "page.mouse.click", at |-> at, raised |-> raised]

\* find_clickable_elements without its test of self.page
found_withoutPageCheck(p, d, fault) ==
    IF fault
    THEN [value |-> "Error", elements |-> elements,
          calls |-> <<Evaluate("JS_GET_CLICKABLE_ELEMENTS", TRUE)>>]
    ELSE [value |-> "elements",
          elements |-> convertElements(JS_GET_CLICKABLE_ELEMENTS(d)),
          calls |-> <<Evaluate("JS_GET_CLICKABLE_ELEMENTS", FALSE)>>]

\* find_clickable_elements on the page p showing d; fault: the evaluation
\* raises.
found(p, d, fault) ==
    IF p = 0 THEN [value |-> "ValueError", elements |-> elements, calls |-> <<>>]
    ELSE IF fault
         THEN [value |-> "Error", elements |-> elements,
               calls |-> <<Evaluate("JS_GET_CLICKABLE_ELEMENTS", TRUE)>>]
         ELSE [value |-> "elements",
               elements |-> convertElements(JS_GET_CLICKABLE_ELEMENTS(d)),
               calls |-> <<Evaluate("JS_GET_CLICKABLE_ELEMENTS", FALSE)>>]

find_clickable_elements(fault) ==
    LET f == found(page, dom, fault)
    IN /\ elements' = f.elements
       /\ ret' = Returned("find_clickable_elements", f.value)
       /\ calls' = f.calls
       /\ args' = NoArgs
       /\ UNCHANGED <<playwright, browser, page, openPages, url, dom>>

\* analyze_page: open_page, page.title(), find_clickable_elements; the
\* caller keeps analysis.elements.  fault: as for open_page, or "title", or
\* "evaluate".
analyze_page(u, d, fault) ==
    LET o == opened(u, d, fault)
        f == found(o.page, o.dom, fault = "evaluate")
        raised == o.value = "Error" \/ fault = "title"
    IN /\ Cardinality(openPages) < MaxPages
       /\ page' = o.page
       /\ openPages' = o.openPages
       /\ url' = o.url
       /\ dom' = o.dom
       /\ elements' = IF raised THEN elements ELSE f.elements
       /\ ret' = Returned("analyze_page",
                          IF raised THEN "Error"
                          ELSE IF f.value = "elements" THEN "analysis" ELSE f.value)
       /\ calls' = IF raised THEN <<>> ELSE f.calls
       /\ args' = NoArgs
       /\ UNCHANGED <<playwright, browser>>

\* A lookup that takes the first element whatever its index
findByIndex_anyIndex(els, element_index) == IF els = <<>> THEN 0 ELSE 1

\* next((e for e in elements if e.index == element_index), None): the
\* place of the element in the list, 0 for None

findByIndex(els, element_index) ==
    LET at == {i \in 1..Len(els) : els[i].index = element_index}
    IN IF at = {} THEN 0 ELSE CHOOSE i \in at : \A j \in at : i <= j

\* Whether highlight_element, asked on the page p showing d, gets as far as
\* its second evaluation: the element has no id attribute, and the probe of
\* its xpath raised nothing and found a node.
probed(p, d, element_index, els, failAt) ==
    LET at == findByIndex(els, element_index)
        element == els[at]
    IN /\ p # 0
       /\ at # 0
       /\ "id" \notin DOMAIN element.attributes
       /\ element.xpath # EmptyXPath
       /\ failAt # 1
       /\ xpathWellFormed(element.xpath)
       /\ evaluateXPath(d, element.xpath) # 0

\* highlight_element on the page p, at u, showing d.  failAt: the number of
\* the evaluation in which the automation layer raises (0: none does).
\* later: the address and the document of the page when the second
\* evaluation runs; the coroutine is suspended between the two, and the page
\* may have changed.  The answer: the value returned ("Error" or "TypeError"
\* when it raises), the evaluations issued, the page afterwards.
highlighted(p, u, d, element_index, els, failAt, later) ==
    LET at == findByIndex(els, element_index)
        element == els[at]
    IN IF p = 0 THEN [value |-> "False", calls |-> <<>>, url |-> u, dom |-> d]
       ELSE IF at = 0 THEN [value |-> "False", calls |-> <<>>, url |-> u, dom |-> d]
       ELSE IF "id" \in DOMAIN element.attributes
       THEN \* page.evaluate(JS_HIGHLIGHT_ELEMENT, selector, element_index):
            \* evaluate takes the expression and one argument, so the call
            \* raises TypeError and nothing reaches the page.
            [value |-> "TypeError", calls |-> <<>>, url |-> u, dom |-> d]
       ELSE IF element.xpath # EmptyXPath
       THEN IF failAt = 1 \/ ~xpathWellFormed(element.xpath)
            THEN [value |-> "Error", url |-> u, dom |-> d,
                  calls |-> <<Evaluate("xpath_probe", TRUE)>>]
            ELSE IF evaluateXPath(d, element.xpath) = 0
            THEN [value |-> "False", url |-> u, dom |-> d,
                  calls |-> <<Evaluate("xpath_probe", FALSE)>>]
            ELSE IF failAt = 2
            THEN [value |-> "Error", url |-> later.url, dom |-> later.dom,
                  calls |-> <<Evaluate("xpath_probe", FALSE),
                              Evaluate("xpath_style", TRUE)>>]
            ELSE \* if (element) {...}: nothing is styled when the node is
                 \* gone by now; True is returned all the same.
                 LET node == evaluateXPath(later.dom, element.xpath)
                 IN [value |-> "True", url |-> later.url,
                     dom |-> IF node = 0 THEN later.dom
                             ELSE [later.dom EXCEPT !.styled = @ \cup {node}],
                     calls |-> <<Evaluate("xpath_probe", FALSE),
                                 Evaluate("xpath_style", FALSE)>>]
       ELSE [value |-> "False", calls |-> <<>>, url |-> u, dom |-> d]

highlight_element(element_index, els, failAt, later) ==
    LET h == highlighted(page, url, dom, element_index, els, failAt, later)
    IN /\ dom' = h.dom
       /\ url' = h.url
       /\ ret' = Returned("highlight_element", h.value)
       /\ calls' = h.calls
       /\ args' = [element_index |-> element_index, elements |-> els]
       /\ UNCHANGED <<playwright, browser, page, openPages, elements>>

AtPoint == -3

\* The point clicked, in half pixels: x + width / 2 is x2 / 2.
center(box) == [x2 |-> 2 * box.x + box.width, y2 |-> 2 * box.y + box.height]

\* An if-chain that tests the id attribute before the xpath
strategy_idFirst(element) ==
    IF "id" \in DOMAIN element.attributes THEN "id"
    ELSE IF element.xpath # EmptyXPath THEN "xpath"
    ELSE IF element.bounding_box # EmptyBox THEN "coordinates"
    ELSE "none"

\* The strategy the if-chain of click_element takes for an element
strategy(element) ==
    IF element.xpath # EmptyXPath THEN "xpath"
    ELSE IF "id" \in DOMAIN element.attributes THEN "id"
    ELSE IF element.bounding_box # EmptyBox THEN "coordinates"
    ELSE "none"

\* click_element on the page p showing d.  fault: the automation layer
\* raises in the click it is asked for (a timeout, a detached or covered
\* node).  The answer: the value returned, the clicks issued, and the node
\* clicked (0: none; AtPoint: whatever lies at the point).
clicked(p, d, element_index, els, fault) ==
    LET at == findByIndex(els, element_index)
        element == els[at]
        how == strategy(element)
    IN IF p = 0 THEN [value |-> "False", calls |-> <<>>, target |-> 0]
       ELSE IF at = 0 THEN [value |-> "False", calls |-> <<>>, target |-> 0]
       ELSE IF how = "xpath"
       THEN LET node == IF xpathWellFormed(element.xpath)
                        THEN evaluateXPath(d, element.xpath) ELSE 0
                raised == fault \/ node = 0
            IN [value |-> IF raised THEN "False" ELSE "True",
                calls |-> <<PageClick("xpath", element.xpath, raised)>>,
                target |-> IF raised THEN 0 ELSE node]
       ELSE IF how = "id"
       THEN LET id == element.attributes["id"]
                node == IF cssWellFormed(id) THEN querySelector(d, id) ELSE 0
                raised == fault \/ node = 0
            IN [value |-> IF raised THEN "False" ELSE "True",
                calls |-> <<PageClick("id", id, raised)>>,
                target |-> IF raised THEN 0 ELSE node]
       ELSE IF how = "coordinates"
       THEN [value |-> IF fault THEN "False" ELSE "True",
             calls |-> <<MouseClick(center(element.bounding_box), fault)>>,
             target |-> IF fault THEN 0 ELSE AtPoint]
       ELSE [value |-> "False", calls |-> <<>>, target |-> 0]

\* The address the caller opens, and the one a link on a page leads to
StartUrl == "u1"
Other(u) == IF u = "u1" THEN "u2" ELSE "u1"

click_element(element_index, els, fault) ==
    LET c == clicked(page, dom, element_index, els, fault)
    IN /\ ret' = Returned("click_element", c.value)
       /\ calls' = c.calls
       /\ args' = [element_index |-> element_index, elements |-> els]
       /\ UNCHANGED <<playwright, browser, page, openPages, url, dom, elements>>

\* What a click that landed may set off in the page: it navigates to another
\* address u, which shows the document d.
navigated(u, d) ==
    /\ url' = u
    /\ dom' = d

(***************************************************************************)
(* The session under any caller that uses it sequentially.                 *)
(***************************************************************************)
SessionKinds ==
    {Shown("a", NoAttributes, FALSE),
     Shown("a", [id |-> <<"s">>], FALSE)}

\* The documents a session is opened on: links, with an id or without, side
\* by side in the body.
SessionDocuments ==
    {[parent |-> <<0>> \o [i \in 1..Len(links) |-> 1],
      node |-> <<Shown("body", NoAttributes, FALSE)>> \o links,
      overlays |-> {}, styled |-> {}] :
        links \in UNION {[1..k -> SessionKinds] : k \in 0..(MaxSessionNodes - 1)}}

\* ElementInfo objects a caller builds itself; attributes, xpath and
\* bounding_box have the defaults {}, "" and {}.
HandMade(index, attributes, xpath, bounding_box) ==
    [index |-> index, tag_name |-> "a", attributes |-> attributes, xpath |-> xpath,
     is_visible |-> TRUE, is_in_viewport |-> TRUE, bounding_box |-> bounding_box,
     node |-> 0]

HandMadeLists ==
    {<<HandMade(0, [id |-> <<"s">>], EmptyXPath, boundingBox(BoxRect))>>,
     <<HandMade(0, NoAttributes, EmptyXPath, EmptyBox),
       HandMade(0, NoAttributes, EmptyXPath, boundingBox(BoxRect))>>,
     <<HandMade(1, NoAttributes, EmptyXPath, boundingBox(BoxRect))>>}

\* The evaluations of a highlight in which the automation layer may raise:
\* those it issues when none raises (0: none raises).
FailPoints(element_index, els) ==
    0..Len(highlighted(page, url, dom, element_index, els, 0,
                       [url |-> url, dom |-> dom]).calls)

\* Whether the automation layer raises in the click asked of it: it can
\* only where a click is asked.
ClickFaults(element_index, els) ==
    IF clicked(page, dom, element_index, els, FALSE).calls = <<>>
    THEN {FALSE} ELSE BOOLEAN

\* What the page may be by the second evaluation of a highlight that gets
\* there: as it was, or emptied by a page script, or navigated away to
\* another address and document.
Later(element_index, els, failAt) ==
    {[url |-> url, dom |-> dom]}
        \cup (IF probed(page, dom, element_index, els, failAt)
              THEN {[url |-> url, dom |-> BlankDocument]}
                       \cup {[url |-> Other(url), dom |-> d] : d \in SessionDocuments}
              ELSE {})

\* The indices a caller asks for: the first, which every list that is not
\* empty holds, and the second, which a list of one element does not hold.
IndexArgs == {0, 1}

NoCommand == <<>>
NoProbe == [rect |-> ZeroRect, innerWidth |-> 0, innerHeight |-> 0]
NotProbed == [done |-> FALSE, isInViewport |-> FALSE]

Init ==
    /\ NewSession
    /\ passes = 0
    /\ domChanges = 0
    /\ pc = "caller"
    /\ command = NoCommand
    /\ out = <<>>
    /\ probe = NoProbe
    /\ probeOut = NotProbed

Rest == UNCHANGED <<countVars, mainVars, probeVars>>

\* The session is usable until its browser has been closed.
InUse == browser # "closed"

Enter ==
    /\ playwright = "unset"
    /\ \E fault \in {"none", "start", "launch"} : aenter(fault)
    /\ Rest

Exit ==
    /\ browser = "launched"
    /\ \E fault \in {"none", "close", "stop"} : aexit(fault)
    /\ Rest

Open ==
    /\ InUse
    /\ \/ \E d \in SessionDocuments, fault \in {"none", "wait"} :
             open_page(StartUrl, d, fault)
       \/ \E fault \in {"new_page", "goto"} : open_page(StartUrl, BlankDocument, fault)
    /\ Rest

Find ==
    /\ InUse
    /\ \E fault \in BOOLEAN : find_clickable_elements(fault)
    /\ Rest

Analyze ==
    /\ InUse
    /\ \/ \E d \in SessionDocuments, fault \in {"none", "wait", "title", "evaluate"} :
             analyze_page(StartUrl, d, fault)
       \/ \E fault \in {"new_page", "goto"} :
             analyze_page(StartUrl, BlankDocument, fault)
    /\ Rest

Highlight ==
    /\ InUse
    /\ \E i \in IndexArgs, els \in {elements} \cup HandMadeLists :
          \E failAt \in FailPoints(i, els) :
             \E later \in Later(i, els, failAt) : highlight_element(i, els, failAt, later)
    /\ Rest

Click ==
    /\ InUse
    /\ \E i \in IndexArgs, els \in {elements} \cup HandMadeLists :
          \E fault \in ClickFaults(i, els) : click_element(i, els, fault)
    /\ Rest

\* The page navigates once a click has landed, before the caller's next call.
\* It is no call on the session: the last call stays the click.
Navigate ==
    /\ InUse
    /\ ret = Returned("click_element", "True")
    /\ \E d \in SessionDocuments : navigated(Other(url), d)
    /\ UNCHANGED <<playwright, browser, page, openPages, elements, args, ret, calls>>
    /\ Rest

Next == Enter \/ Exit \/ Open \/ Find \/ Analyze \/ Highlight \/ Click \/ Navigate

Spec == Init /\ [][Next]_vars

(***************************************************************************)
(* The classifier on its own: a document, classification passes over it,   *)
(* and page scripts hiding an element between two passes.                  *)
(***************************************************************************)
ClassifyBodies == {Shown("body", NoAttributes, FALSE)}

\* A link, a box taken out of the tab order (not interactive), a
\* visibility:hidden box (what is inside may be shown all the same) and a
\* fully transparent link.
ClassifyKinds ==
    {Shown("a", NoAttributes, FALSE),
     Shown("div", [tabindex |-> "-1"], FALSE),
     Element("div", NoAttributes, FALSE, BoxRect, "hidden", "block", "1"),
     Element("a", NoAttributes, FALSE, BoxRect, "visible", "block", "0")}

\* The session is open on a page showing any such document.
InitClassify ==
    /\ playwright = "started"
    /\ browser = "launched"
    /\ page = 1
    /\ openPages = {1}
    /\ url = StartUrl
    /\ dom \in Documents(MaxNodes, ClassifyBodies, ClassifyKinds)
    /\ elements = <<>>
    /\ args = NoArgs
    /\ ret = Returned("open_page", "page")
    /\ calls = <<>>
    /\ passes = 0
    /\ domChanges = 0
    /\ pc = "caller"
    /\ command = NoCommand
    /\ out = <<>>
    /\ probe = NoProbe
    /\ probeOut = NotProbed

\* One classification pass: find_clickable_elements, the evaluation raising
\* no error.
ClassificationPass ==
    /\ passes < MaxPasses
    /\ find_clickable_elements(FALSE)
    /\ passes' = passes + 1
    /\ UNCHANGED <<domChanges, mainVars, probeVars>>

\* A page script sets display:none on element n: n and what is inside it
\* lose their boxes.
hide(d, n) ==
    [d EXCEPT !.node =
        [i \in Nodes(d) |->
            IF i = n THEN [d.node[i] EXCEPT !.display = "none", !.rect = ZeroRect]
            ELSE IF n \in Ancestors(d, i) THEN [d.node[i] EXCEPT !.rect = ZeroRect]
            ELSE d.node[i]]]

PageScriptHides ==
    /\ passes > 0
    /\ domChanges < MaxDomChanges
    /\ \E n \in Nodes(dom) :
          /\ isVisible(dom.node[n])
          /\ dom' = hide(dom, n)
    /\ domChanges' = domChanges + 1
    /\ UNCHANGED <<playwright, browser, page, openPages, url, elements, args, ret, calls>>
    /\ UNCHANGED <<passes, mainVars, probeVars>>

NextClassify == ClassificationPass \/ PageScriptHides

SpecClassify == InitClassify /\ [][NextClassify]_vars

(***************************************************************************)
(* isInViewport on its own: rectangles with their edges around the         *)
(* tolerance lines of windows of several sizes.                            *)
(***************************************************************************)
\* Coordinates within Slack of the line `Tolerance` before 0 and of the line
\* `Tolerance` after size
Around(size) ==
    ((-Tolerance - Slack)..(-Tolerance + Slack))
        \cup ((size + Tolerance - Slack)..(size + Tolerance + Slack))

Probes ==
    {[rect |-> [x |-> left, y |-> top, width |-> right - left, height |-> bottom - top],
      innerWidth |-> w, innerHeight |-> h] :
        <<w, h, left, right, top, bottom>> \in
            {t \in UNION {{ww} \X {hh} \X Around(ww) \X Around(ww) \X Around(hh) \X Around(hh) :
                            ww \in {ViewportWidth, Tolerance},
                            hh \in {ViewportHeight, Tolerance}} :
                t[3] <= t[4] /\ t[5] <= t[6]}}

InitViewport ==
    /\ NewSession
    /\ passes = 0
    /\ domChanges = 0
    /\ pc = "caller"
    /\ command = NoCommand
    /\ out = <<>>
    /\ probe \in Probes
    /\ probeOut = NotProbed

\* The script asks isInViewport for the rectangle.
AskInViewport ==
    /\ ~probeOut.done
    /\ probeOut' = [done |-> TRUE,
                    isInViewport |-> isInViewport(probe.rect, probe.innerWidth,
                                                  probe.innerHeight)]
    /\ UNCHANGED <<sessionVars, countVars, mainVars, probe>>

NextViewport == AskInViewport

SpecViewport == InitViewport /\ [][NextViewport]_vars

(***************************************************************************)
(* Claims about the classifier.                                            *)
(***************************************************************************)
RECURSIVE rootPath(_, _)
\* The nodes from the body down to n
rootPath(d, n) == IF n = 0 THEN <<>> ELSE Append(rootPath(d, d.parent[n]), n)

\* a comes before b in a pre-order walk: a is an ancestor of b, or where
\* their paths from the body part, a's branch is the earlier child.
PreOrderBefore(d, a, b) ==
    LET pa == rootPath(d, a)
        pb == rootPath(d, b)
        differ == {k \in 1..Len(pa) : k <= Len(pb) /\ pa[k] # pb[k]}
    IN /\ a # b
       /\ \/ a \in Ancestors(d, b)
          \/ /\ differ # {}
             /\ LET k == CHOOSE i \in differ : \A j \in differ : i <= j
                IN pa[k] < pb[k]

\* C6: after every classification pass the returned elements carry the
\* indices 0..n-1, each once, the element at list position i (counted from
\* 0) has index i, and the list is in pre-order: a parent before what is
\* inside it, siblings in document order.  This holds of the second pass
\* as of the first: the counter starts at 0 again.
C6_IndicesContiguousPreOrder ==
    /\ {elements[i].index : i \in 1..Len(elements)} = 0..(Len(elements) - 1)
    /\ \A i \in 1..Len(elements) : elements[i].index = i - 1
    /\ \A i, j \in 1..Len(elements) :
          i < j => PreOrderBefore(dom, elements[i].node, elements[j].node)

\* A second pass, after a page script changed what the first one saw, has
\* returned two elements or more, and the walk did not follow the numbering
\* of the nodes.
C6_Witness ==
    /\ passes = 2
    /\ domChanges = 1
    /\ Len(elements) >= 2
    /\ ret = Returned("find_clickable_elements", "elements")
    /\ \E i, j \in 1..Len(elements) : i < j /\ elements[i].node > elements[j].node

\* The nodes a pass over d must record according to the claim as amended:
\* interactive, visible, and inside visible elements only.
Reached(d, n) == \A a \in Ancestors(d, n) \cup {n} : isVisible(d.node[a])

RecordedOnce(d, els, n) == Cardinality({i \in 1..Len(els) : els[i].node = n}) = 1
RecordedNever(els, n) == \A i \in 1..Len(els) : els[i].node # n

\* C10 as amended: in a pass, a node is recorded exactly when it passes an
\* interactivity test and it and every element around it, up to the body,
\* are visible; each such node is recorded once.  What is inside a recorded
\* node and inside a visible node that is not interactive is visited; what is
\* inside an invisible node is not.
C10_RecordedWhenReached ==
    [][passes' = passes + 1 =>
        \A n \in Nodes(dom') :
            IF Reached(dom', n) /\ isInteractive(dom'.node[n])
            THEN RecordedOnce(dom', elements', n)
            ELSE RecordedNever(elements', n)]_vars

\* C10 as claimed: a node is recorded exactly when the node itself is visible
\* and interactive, whatever its ancestors are.
C10_AsClaimed ==
    [][passes' = passes + 1 =>
        \A n \in Nodes(dom') :
            IF isVisible(dom'.node[n]) /\ isInteractive(dom'.node[n])
            THEN RecordedOnce(dom', elements', n)
            ELSE RecordedNever(elements', n)]_vars

\* A pass has just recorded an element and has left out a visible link
\* inside an invisible box.
C10_Witness ==
    /\ passes = 1
    /\ domChanges = 0
    /\ Len(elements) >= 1
    /\ \E n \in Nodes(dom) :
          /\ isVisible(dom.node[n]) /\ isInteractive(dom.node[n])
          /\ ~Reached(dom, n)
          /\ RecordedNever(elements, n)

(***************************************************************************)
(* Claims about isInViewport.                                              *)
(***************************************************************************)
\* The rectangle lies entirely more than the tolerance beyond one edge
BeyondAnEdge(p) ==
    \/ Bottom(p.rect) < -Tolerance
    \/ Right(p.rect) < -Tolerance
    \/ Top(p.rect) > p.innerHeight + Tolerance
    \/ Left(p.rect) > p.innerWidth + Tolerance

\* The rectangle stays within the tolerance on all four edges
WithinMargin(p) ==
    /\ Top(p.rect) >= -Tolerance
    /\ Left(p.rect) >= -Tolerance
    /\ Bottom(p.rect) <= p.innerHeight + Tolerance
    /\ Right(p.rect) <= p.innerWidth + Tolerance

\* C9: a rectangle entirely more than 100px beyond any one edge of the
\* window is marked not in the viewport, and a rectangle within the 100px
\* margin on all four edges is marked in the viewport.
C9_ViewportTolerance ==
    probeOut.done =>
        /\ BeyondAnEdge(probe) => ~probeOut.isInViewport
        /\ WithinMargin(probe) => probeOut.isInViewport

\* A rectangle that reaches the margin lines on the right and at the bottom,
\* outside the window, has been marked in the viewport.
C9_Witness ==
    /\ probeOut.done
    /\ Bottom(probe.rect) = probe.innerHeight + Tolerance
    /\ Right(probe.rect) = probe.innerWidth + Tolerance
    /\ WithinMargin(probe)
    /\ probeOut.isInViewport

(***************************************************************************)
(* The program as run: main() enters the session, analyzes the page,       *)
(* reports, runs the command loop when asked to, and leaves the session.   *)
(* pc is the place of the run: "start", "body" (inside the with block),    *)
(* "analyzed", "prompt" (the loop is about to read a line), "read" (a line *)
(* was read), "waiting" (a click landed, the loop waits for the page),     *)
(* "leaving" and "raising" (the with block is left, normally or by an      *)
(* exception), "done" and "crashed" (the run has ended).                   *)
(***************************************************************************)
\* A line is a sequence of characters.  str.strip, str.lower and str.split
\* for the characters the lines below are made of; the blank is the only
\* white space among them.
RECURSIVE strip(_)
strip(s) ==
    IF s # <<>> /\ s[1] = " " THEN strip(Tail(s))
    ELSE IF s # <<>> /\ s[Len(s)] = " " THEN strip(SubSeq(s, 1, Len(s) - 1))
    ELSE s

lowerChar(c) ==
    CASE c = "H" -> "h" [] c = "C" -> "c" [] c = "S" -> "s"
      [] c = "L" -> "l" [] c = "Q" -> "q" [] c = "X" -> "x"
      [] OTHER -> c

lower(s) == [i \in 1..Len(s) |-> lowerChar(s[i])]

RECURSIVE split(_)
split(s) ==
    IF s = <<>> THEN <<>>
    ELSE IF s[1] = " " THEN split(Tail(s))
    ELSE LET stops == {i \in 1..Len(s) : s[i] = " "}
             end == IF stops = {} THEN Len(s) + 1
                    ELSE CHOOSE i \in stops : \A j \in stops : i <= j
         IN <<SubSeq(s, 1, end - 1)>> \o split(SubSeq(s, end, Len(s)))

Digits == <<"0", "1", "2", "3", "4", "5", "6", "7", "8", "9">>
digit(c) == (CHOOSE n \in 1..Len(Digits) : Digits[n] = c) - 1

RECURSIVE decimal(_)
decimal(ds) ==
    IF ds = <<>> THEN 0
    ELSE 10 * decimal(SubSeq(ds, 1, Len(ds) - 1)) + digit(ds[Len(ds)])

\* A conversion that reads every text that is no number as 0
int_orZero(s) ==
    LET signed == s # <<>> /\ s[1] \in {"+", "-"}
        ds == IF signed THEN Tail(s) ELSE s
    IN IF ds = <<>> \/ \E i \in 1..Len(ds) : \A n \in 1..Len(Digits) : Digits[n] # ds[i]
       THEN [ok |-> TRUE, value |-> 0]
       ELSE [ok |-> TRUE, value |-> IF s[1] = "-" THEN -decimal(ds) ELSE decimal(ds)]

\* int(index_str): an optional sign and decimal digits; ok is FALSE where
\* int raises ValueError.  (Underscores between digits are not among the
\* characters of the lines below.)
int(s) ==
    LET signed == s # <<>> /\ s[1] \in {"+", "-"}
        ds == IF signed THEN Tail(s) ELSE s
    IN IF ds = <<>> \/ \E i \in 1..Len(ds) : \A n \in 1..Len(Digits) : Digits[n] # ds[i]
       THEN [ok |-> FALSE, value |-> 0]
       ELSE [ok |-> TRUE, value |-> IF s[1] = "-" THEN -decimal(ds) ELSE decimal(ds)]

\* The lines an operator types: the commands for the indices a caller asks
\* for, in either case, and lines that are no command.
Lines ==
    {<<a, " ", Digits[i + 1]>> : a \in {"h", "H", "c", "s", "x"}, i \in IndexArgs}
        \cup {<<"q">>, <<" ", "Q", " ">>, <<"l">>, <<"L">>, <<>>, <<" ">>,
              <<"h">>, <<"h", "0">>, <<"h", " ", "0", " ", "0">>,
              <<"h", " ", " ", "0">>, <<"h", " ", "x">>, <<"c", " ", "-", "0">>,
              <<"c", " ", "-", "1">>, <<"q", " ", "0">>, <<"0", " ", "h">>}

InitMain ==
    /\ NewSession
    /\ passes = 0
    /\ domChanges = 0
    /\ pc = "start"
    /\ command = NoCommand
    /\ out = <<>>
    /\ probe = NoProbe
    /\ probeOut = NotProbed

RestMain == UNCHANGED <<countVars, probeVars>>

\* async with WebScraper(...) as scraper: when __aenter__ raises the with
\* block is never entered and __aexit__ is not called.
MainEnter ==
    /\ pc = "start"
    /\ \E fault \in {"none", "start", "launch"} :
          /\ aenter(fault)
          /\ pc' = IF fault = "none" THEN "body" ELSE "crashed"
    /\ UNCHANGED <<command, out>>
    /\ RestMain

\* analysis = await scraper.analyze_page(args.url)
MainAnalyze ==
    /\ pc = "body"
    /\ \/ \E d \in SessionDocuments, fault \in {"none", "wait", "title", "evaluate"} :
             analyze_page(StartUrl, d, fault)
       \/ \E fault \in {"new_page", "goto"} :
             analyze_page(StartUrl, BlankDocument, fault)
    /\ pc' = IF ret'.value = "analysis" THEN "analyzed" ELSE "raising"
    /\ UNCHANGED <<command, out>>
    /\ RestMain

\* print_elements, save_to_file when --output is given (writing the file
\* may fail), interactive_mode when --interact is given.
MainReport ==
    /\ pc = "analyzed"
    /\ \E output \in {"none", "saved", "fails"}, interact \in BOOLEAN :
          pc' = IF output = "fails" THEN "raising"
                ELSE IF interact THEN "prompt" ELSE "leaving"
    /\ out' = <<"Clickable Elements">>
    /\ UNCHANGED <<sessionVars, command>>
    /\ RestMain

\* command = input("\nEnter command: ").strip()
ReadCommand ==
    /\ pc = "prompt"
    /\ \E line \in Lines : command' = strip(line)
    /\ pc' = "read"
    /\ UNCHANGED <<sessionVars, out>>
    /\ RestMain

\* input() raises EOFError when the input has ended.
EndOfInput ==
    /\ pc = "prompt"
    /\ pc' = "raising"
    /\ UNCHANGED <<sessionVars, command, out>>
    /\ RestMain

\* The loop goes on with the next prompt after printing line.
Printed(line) ==
    /\ out' = <<line>>
    /\ pc' = "prompt"
    /\ UNCHANGED sessionVars

\* The loop goes on with the next prompt after printing the elements of the
\* list, which is nothing when the list is empty.
Listed ==
    /\ out' = IF elements = <<>> THEN <<>> ELSE <<"elements">>
    /\ pc' = "prompt"
    /\ UNCHANGED sessionVars

\* The body of the loop for the line read.
RunCommand ==
    /\ pc = "read"
    /\ LET parts == split(command)
           action == parts[1]
           index == int(parts[2])
       IN IF lower(command) = <<"q">>
          THEN pc' = "leaving" /\ out' = <<>> /\ UNCHANGED sessionVars
          ELSE IF lower(command) = <<"l">> THEN Listed
          ELSE IF Len(parts) # 2 THEN Printed("Invalid command format")
          ELSE IF ~index.ok THEN Printed("Invalid index")
          ELSE IF findByIndex(elements, index.value) = 0
          THEN Printed("Element not found")
          ELSE IF lower(action) = <<"h">>
          THEN \E failAt \in FailPoints(index.value, elements) :
                  /\ \E later \in Later(index.value, elements, failAt) :
                        highlight_element(index.value, elements, failAt, later)
                  /\ IF ret'.value \in {"Error", "TypeError"}
                     THEN pc' = "raising" /\ out' = <<>>
                     ELSE pc' = "prompt" /\ out' = <<"Highlighted element">>
          ELSE IF lower(action) = <<"c">>
          THEN \E fault \in ClickFaults(index.value, elements) :
                  /\ click_element(index.value, elements, fault)
                  /\ IF ret'.value = "True"
                     THEN pc' = "waiting" /\ out' = <<"Clicked element">>
                     ELSE pc' = "prompt" /\ out' = <<"Failed to click element">>
          ELSE IF lower(action) = <<"s">> THEN Printed("Element Details")
          ELSE Printed("Unknown action")
    /\ UNCHANGED command
    /\ RestMain

\* A wait that analyzes the page again once it has loaded
WaitForLoadState_reanalyzes ==
    /\ pc = "waiting"
    /\ \/ \E d \in SessionDocuments : navigated(Other(url), d)
       \/ UNCHANGED <<url, dom>>
    /\ \E fault \in BOOLEAN :
          IF fault THEN pc' = "raising" /\ out' = out
          ELSE pc' = "prompt" /\ out' = Append(out, "Page navigated to")
    /\ elements' = convertElements(JS_GET_CLICKABLE_ELEMENTS(dom'))
    /\ UNCHANGED <<playwright, browser, page, openPages, args, ret, calls, command>>
    /\ RestMain

\* await self.page.wait_for_load_state("networkidle") after a click that
\* landed: the page may have navigated, and the wait may time out.
WaitForLoadState ==
    /\ pc = "waiting"
    /\ \/ \E d \in SessionDocuments : navigated(Other(url), d)
       \/ UNCHANGED <<url, dom>>
    /\ \E fault \in BOOLEAN :
          IF fault THEN pc' = "raising" /\ out' = out
          ELSE pc' = "prompt" /\ out' = Append(out, "Page navigated to")
    /\ UNCHANGED <<playwright, browser, page, openPages, elements, args, ret, calls, command>>
    /\ RestMain

\* The with block is left: __aexit__ runs; the run ends normally when the
\* block was left normally and __aexit__ raised nothing.
MainExit ==
    /\ pc \in {"leaving", "raising"}
    /\ \E fault \in {"none", "close", "stop"} : aexit(fault)
    /\ pc' = IF pc = "leaving" /\ ret'.value = "None" THEN "done" ELSE "crashed"
    /\ UNCHANGED <<command, out>>
    /\ RestMain

NextMain ==
    \/ MainEnter \/ MainAnalyze \/ MainReport
    \/ ReadCommand \/ EndOfInput \/ RunCommand \/ WaitForLoadState
    \/ MainExit

SpecMain == InitMain /\ [][NextMain]_vars

(***************************************************************************)
(* Claims about the session.                                               *)
(***************************************************************************)
\* The element the last highlight or click was asked for, when the list
\* holds one with that index
ArgFound == findByIndex(args.elements, args.element_index) # 0
ArgElement == args.elements[findByIndex(args.elements, args.element_index)]

\* The last highlight or click was given the list of a classification pass
\* over the document the page still shows.
ArgsFresh == args.elements = convertElements(JS_GET_CLICKABLE_ELEMENTS(dom))

\* The strategies click could use for an element, and those it tried
Applicable(e) ==
    {"xpath" : x \in {1} \cap (IF e.xpath # EmptyXPath THEN {1} ELSE {})}
        \cup {"id" : x \in {1} \cap (IF "id" \in DOMAIN e.attributes THEN {1} ELSE {})}
        \cup {"coordinates" : x \in {1} \cap (IF e.bounding_box # EmptyBox THEN {1} ELSE {})}

Tried(cs) ==
    {IF cs[i].api = "page.mouse.click" THEN "coordinates" ELSE cs[i].by : i \in 1..Len(cs)}

\* C1 as claimed: for an element found in the list, an error raised in one
\* strategy's attempt only fails that attempt: click goes on to the next
\* applicable strategy (XPath, then id selector, then the mouse at the
\* center of the box), returns failure only when every applicable strategy
\* has failed or none applies, and never raises.
C1_AsClaimed ==
    (ret.op = "click_element" /\ page # 0 /\ ArgFound) =>
        /\ ret.value \in {"True", "False"}
        /\ ret.value = "False" =>
              /\ Tried(calls) = Applicable(ArgElement)
              /\ \A i \in 1..Len(calls) : calls[i].raised
        /\ ret.value = "True" =>
              /\ ~calls[Len(calls)].raised
              /\ \A i \in 1..(Len(calls) - 1) : calls[i].raised

\* C2 as claimed: for an element with an id attribute of a list a pass has
\* just returned, click performs the click through the id-based CSS
\* selector, reports success and issues no mouse click.
C2_AsClaimed ==
    (ret.op = "click_element" /\ page # 0 /\ ArgsFresh /\ ArgFound
        /\ "id" \in DOMAIN ArgElement.attributes) =>
        /\ Len(calls) = 1
        /\ calls[1].api = "page.click"
        /\ calls[1].by = "id"
        /\ ret.value = "True"

\* C2 as amended: for such an element click makes one attempt, through the
\* XPath locator with the recorded xpath (//*[@id="..."] when the id is not
\* empty); it issues no id-selector click and no mouse click, and it reports
\* success exactly when that one click raised no error.
C2_ClicksByXPath ==
    (ret.op = "click_element" /\ page # 0 /\ ArgsFresh /\ ArgFound
        /\ "id" \in DOMAIN ArgElement.attributes) =>
        /\ Len(calls) = 1
        /\ calls[1].api = "page.click"
        /\ calls[1].by = "xpath"
        /\ calls[1].selector = ArgElement.xpath
        /\ ArgElement.attributes["id"] # <<>> =>
              calls[1].selector = [kind |-> "id", id |-> ArgElement.attributes["id"]]
        /\ ret.value \in {"True", "False"}
        /\ ret.value = "True" <=> ~calls[1].raised

\* A click on an element with id "s" of a fresh list went through the
\* XPath locator and succeeded.
C2_Witness ==
    /\ ret = Returned("click_element", "True")
    /\ page # 0 /\ ArgsFresh /\ ArgFound
    /\ ArgElement.attributes = [id |-> <<"s">>]
    /\ calls = <<PageClick("xpath", [kind |-> "id", id |-> <<"s">>], FALSE)>>

\* C3: on an open session, highlight and click for an index that no element
\* of the list carries return failure, raise nothing, issue no evaluation
\* and no click, and leave the page and its document as they were.
C3_MissingIndexNoEffect ==
    [][(ret'.op \in {"highlight_element", "click_element"} /\ page' # 0
          /\ \A i \in 1..Len(args'.elements) :
                args'.elements[i].index # args'.element_index) =>
        /\ ret'.value = "False"
        /\ calls' = <<>>
        /\ dom' = dom
        /\ url' = url
        /\ page' = page /\ openPages' = openPages]_vars

\* highlight was asked, on an open page showing a link, for an index that
\* the non-empty list does not hold.
C3_Witness ==
    /\ ret = Returned("highlight_element", "False")
    /\ page # 0
    /\ Len(dom.parent) > 1
    /\ args.elements # <<>>
    /\ \A i \in 1..Len(args.elements) : args.elements[i].index # args.element_index
    /\ calls = <<>>

\* C4 as claimed: highlight, click and the classification call on a session
\* with no page open all raise.
C4_AsClaimed ==
    (page = 0 /\ ret.op \in {"highlight_element", "click_element",
                             "find_clickable_elements"}) =>
        ret.value \in {"ValueError", "TypeError", "Error"}

\* C4 as amended: on a session with no page open the classification call
\* raises a usage error (ValueError); highlight and click raise nothing and
\* return failure; none of the three touches the page.
C4_UnopenedSession ==
    (page = 0 /\ ret.op \in {"highlight_element", "click_element",
                             "find_clickable_elements"}) =>
        /\ calls = <<>>
        /\ ret.value = IF ret.op = "find_clickable_elements" THEN "ValueError" ELSE "False"

\* click was asked, with no page open, for an index the list holds, and
\* returned failure.
C4_Witness ==
    /\ page = 0
    /\ ret = Returned("click_element", "False")
    /\ ArgFound
    /\ Applicable(ArgElement) # {}

\* C8 as claimed: after open or analyze calls on a session exactly one page
\* is open in the browser, the one the session holds.
C8_AsClaimed ==
    (ret.op \in {"open_page", "analyze_page"} /\ page # 0 /\ browser = "launched") =>
        openPages = {page}

\* The scripts highlight evaluated, in order
Scripts(cs) == [i \in 1..Len(cs) |-> cs[i].script]

\* C11 as claimed: highlight on an open session, for an element found in
\* the list, resolves by the CSS id-selector (overlay) when the element has
\* an id attribute, and otherwise by the recorded XPath (inline style); it
\* returns success only when a live node was located and decorated, and in
\* every other case it returns failure and does not raise.
C11_AsClaimed ==
    (ret.op = "highlight_element" /\ page # 0 /\ ArgFound) =>
        /\ ret.value \in {"True", "False"}
        /\ "id" \in DOMAIN ArgElement.attributes =>
              /\ Scripts(calls) = <<"JS_HIGHLIGHT_ELEMENT">>
              /\ ret.value = "True" => args.element_index \in dom.overlays
        /\ ("id" \notin DOMAIN ArgElement.attributes /\ ArgElement.xpath # EmptyXPath) =>
              /\ Scripts(calls) \in {<<"xpath_probe">>, <<"xpath_probe", "xpath_style">>}
              /\ ret.value = "True" => evaluateXPath(dom, ArgElement.xpath) \in dom.styled
        /\ ("id" \notin DOMAIN ArgElement.attributes /\ ArgElement.xpath = EmptyXPath) =>
              calls = <<>> /\ ret.value = "False"

(***************************************************************************)
(* Claims about the run.                                                   *)
(***************************************************************************)
\* C5 as claimed: once the run has ended, on whatever path, the browser is
\* closed if it had been launched and the automation engine is stopped if
\* it had been started.
C5_AsClaimed ==
    pc \in {"done", "crashed"} => (browser # "launched" /\ playwright # "started")

\* The places of the run inside the command loop
InLoop == {"prompt", "read", "waiting"}

\* A text int() accepts, said without the conversion
IsInteger(s) ==
    \E sign \in {<<>>, <<"+">>, <<"-">>} :
        /\ Len(s) > Len(sign)
        /\ SubSeq(s, 1, Len(sign)) = sign
        /\ \A i \in (Len(sign) + 1)..Len(s) : s[i] \in {Digits[n] : n \in 1..Len(Digits)}

\* A line that is no command: neither l nor q and not two tokens, or two
\* tokens of which the second is no integer or the first no action letter.
Malformed(line) ==
    LET parts == split(line)
    IN \/ Len(parts) # 2 /\ lower(line) \notin {<<"l">>, <<"q">>}
       \/ Len(parts) = 2 /\ (~IsInteger(parts[2])
                              \/ lower(parts[1]) \notin {<<"h">>, <<"c">>, <<"s">>})

Diagnostics ==
    {<<"Invalid command format">>, <<"Invalid index">>, <<"Element not found">>,
     <<"Unknown action">>}

\* What the loop does with a malformed line it has read: it prints one
\* diagnostic, calls nothing on the session and prompts again.
MalformedReprompts ==
    (pc = "read" /\ Malformed(command)) =>
        /\ out' \in Diagnostics
        /\ pc' = "prompt"
        /\ UNCHANGED sessionVars

\* C7 as claimed: a malformed line prints a diagnostic, invokes no highlight
\* and no click and is followed by a new prompt, and the loop ends only when
\* the operator enters q.
C7_AsClaimed ==
    [][/\ MalformedReprompts
       /\ (pc \in InLoop /\ pc' \notin InLoop) =>
              (pc = "read" /\ lower(command) = <<"q">>)]_vars

\* C7 as amended: a malformed line prints a diagnostic, invokes no highlight
\* and no click and is followed by a new prompt; the loop ends normally only
\* when the operator enters q, and otherwise only by an exception that
\* leaves it: the end of the input at the prompt, an error raised in the
\* highlight of an h command (by an evaluation of the xpath, or the
\* TypeError of the call made for an element with an id attribute), or a
\* wait for the page that fails after the click of a c command.
C7_MalformedNeverEndsLoop ==
    [][/\ MalformedReprompts
       /\ (pc \in InLoop /\ pc' \notin InLoop) =>
              \/ pc = "read" /\ lower(command) = <<"q">> /\ pc' = "leaving"
              \/ pc = "prompt" /\ pc' = "raising"
              \/ /\ pc = "read" /\ pc' = "raising"
                 /\ ~Malformed(command)
                 /\ lower(split(command)[1]) = <<"h">>
                 /\ ret'.op = "highlight_element"
                 /\ ret'.value \in {"Error", "TypeError"}
              \/ /\ pc = "waiting" /\ pc' = "raising"
                 /\ lower(split(command)[1]) = <<"c">>
                 /\ ret = Returned("click_element", "True")]_vars

\* The loop has answered "h x", on a page with an element 0, with the
\* diagnostic for the index and prompts again.
C7_Witness ==
    /\ pc = "prompt"
    /\ command = <<"h", " ", "x">>
    /\ out = <<"Invalid index">>
    /\ findByIndex(elements, 0) # 0

\* What a step of the loop does with the list passed at loop entry
LoopKeepsList ==
    pc \in InLoop =>
        /\ elements' = elements
        /\ (pc = "read" /\ Len(split(command)) = 2 /\ IsInteger(split(command)[2])) =>
              LET action == lower(split(command)[1])
                  index == int(split(command)[2]).value
                  held == \E i \in 1..Len(elements) : elements[i].index = index
              IN /\ (held /\ action = <<"h">>) =>
                        /\ ret'.op = "highlight_element"
                        /\ args' = [element_index |-> index, elements |-> elements]
                 /\ (held /\ action = <<"c">>) =>
                        /\ ret'.op = "click_element"
                        /\ args' = [element_index |-> index, elements |-> elements]
                 /\ (held /\ action = <<"s">>) => out' = <<"Element Details">>
                 /\ ~held => (out' = <<"Element not found">> /\ UNCHANGED sessionVars)

\* C12: the command loop never refreshes its list.  Every step of the loop
\* leaves the list passed at loop entry as it is, also the wait after a
\* click that navigated; a well-formed h or c command whose index the list
\* holds is acted upon with that list, whatever the page shows by now; and
\* an index the list does not hold is answered "not found".
C12_SnapshotNeverRefreshed ==
    [][LoopKeepsList]_vars

\* After a click navigated the page to the other address, an h command for
\* an index of the list passed at loop entry was acted upon, although a
\* pass over the page shown now would give another list.
C12_Witness ==
    /\ pc = "prompt"
    /\ url = Other(StartUrl)
    /\ ret.op = "highlight_element"
    /\ args.elements = elements
    /\ ArgFound
    /\ elements # convertElements(JS_GET_CLICKABLE_ELEMENTS(dom))

====
